---- MODULE Spec2Model ----
(***************************************************************************)
(* PhantomKeystroke: the C2 adapters (src/src/plugins.rs), the command     *)
(* history (src/src/command.rs) and the session driver (src/src/modes.rs,  *)
(* src/src/main.rs) as state machines.                                     *)
(*                                                                         *)
(* Three specifications share the variables:                               *)
(*   Spec         the session: main, the Ctrl-C handler and Mode::run      *)
(*   SpecAdapter  one adapter object driven through its C2Adapter methods  *)
(*   SpecHistory  one CommandHistoryManager driven through add             *)
(***************************************************************************)
EXTENDS Integers, Sequences, FiniteSets, TLC

VARIABLES
    \* ---- the adapter object (plugins.rs: NullPlugin, CobaltStrikePlugin,
    \*      SliverPlugin, MythicPlugin)
    plugin,           \* name() of the active adapter
    cfg_keys,         \* the PluginConfig carries api_key and callback_uuid
    api_configured,   \* MythicPlugin.api_key and .callback_uuid are both Some
    connected,        \* connection_state / connected (AtomicBool)
    retry_count,      \* retry_count (Mutex<u32>)
    buffer,           \* buffer (Mutex<Vec<u8>>), as runs of payload bytes
    last_check_time,  \* MythicPlugin.last_check_time (seconds)
    cleanup_invoked,  \* cleanup() has been called on the adapter
    \* ---- the adapter call being executed, or the last one executed
    call,             \* the method: none, initialize, send, receive, cleanup
    busy,             \* the call is inside its retry loop
    attempt,          \* the loop's local `attempt`
    success,          \* the loop's local `success`
    call_data,        \* the `data` argument of send
    events,           \* what the call did so far: requests and backoff sleeps
    result,           \* what the call returned: pending, ok, empty, data, err
    last_incr,        \* value of *count right after `*count += 1` in the last
                      \* step, 0 when the step did not increment it
    \* ---- environment
    now,              \* SystemTime::now() in seconds
    delivered,        \* payloads appended to the buffer since the last cleanup
    \* ---- bookkeeping of SpecAdapter
    ncalls,           \* number of method calls made so far
    sent_all,         \* payloads passed to send since the last cleanup
    \* ---- the session (main.rs, modes.rs)
    opsec_validator,  \* Mode.opsec_validator: None or the validator's fields
    wall,             \* Local::now() as [hour, weekday, month, day]
    running,          \* the shared flag Arc<Mutex<bool>>
    lock_held,        \* the flag's mutex is held by the Ctrl-C handler
    hpc,              \* position of the Ctrl-C handler
    pc,               \* position of main / Mode::run
    current_command,  \* run's local current_command
    history,          \* CommandHistoryManager.history
    entered,          \* Enter keys read on a buffer that was not blank
    warned,           \* those of them whose command validate() answers Warning
    emitted,          \* calls of process_command
    \* ---- bookkeeping of SpecHistory
    added,            \* number of add calls made so far
    \* ---- what the program, or the function under study, was given and
    \*      what the function returned
    input,
    output,
    \* ---- the clock below the second, and the polls of SpecPoll
    frac,             \* SystemTime::now(): the part as_secs() drops, in ticks
    last_request      \* time in ticks of the last request receive issued

adapterVars == <<plugin, cfg_keys, api_configured, connected, retry_count,
                 buffer, last_check_time, cleanup_invoked>>
callVars    == <<call, busy, attempt, success, call_data, events, result,
                 last_incr, delivered>>
ghostVars   == <<ncalls, sent_all>>
driverVars  == <<opsec_validator, wall, running, lock_held, hpc, pc,
                 current_command, history, entered, warned, emitted>>
auxVars     == <<input, output, frac, last_request>>
vars == <<adapterVars, callVars, ghostVars, driverVars, now, added, auxVars>>

(***************************************************************************)
(* Program constants                                                       *)
(***************************************************************************)
MAX_BUFFER_SIZE == 1024 * 1024
MAX_RETRY_ATTEMPTS == 3
TASK_CHECK_INTERVAL == 3
HISTORY_MAX_ENTRIES == 100

(***************************************************************************)
(* Bounds of the model                                                     *)
(***************************************************************************)
MaxCalls == 4      \* adapter method calls explored by SpecAdapter
MaxTime == 4       \* seconds the clock advances
MaxLen == 2        \* characters held by current_command
MaxEntered == 2    \* Enter keys counted
MaxAdds == 103     \* add calls explored by SpecHistory
MaxPollTime == 6   \* seconds the clock advances in SpecPoll
TicksPerSecond == 2  \* resolution of the clock in SpecPoll
MaxPieces == 3     \* pieces a text of SpecTransform is made of
MaxCommandPieces == 2  \* pieces a command of SpecCommand is made of
MaxMetadataCalls == 3  \* adapter method calls explored by SpecMetadata

NullName   == "null_plugin"
CobaltName == "cobaltstrike_plugin"
SliverName == "sliver_plugin"
MythicName == "mythic_plugin"
PluginNames == {NullName, CobaltName, SliverName, MythicName}
HttpPlugins == {CobaltName, MythicName}

(***************************************************************************)
(* The adapter buffer.  A payload is [id, len]; the buffer is the sequence *)
(* of runs [id, lo, hi]: bytes lo..hi (1-based) of payload id.             *)
(***************************************************************************)
PayloadSizes == {1, MAX_BUFFER_SIZE \div 2, MAX_BUFFER_SIZE, MAX_BUFFER_SIZE + 1}

SegLen(s) == s.hi - s.lo + 1

RECURSIVE BufLen(_)
BufLen(b) == IF b = <<>> THEN 0 ELSE SegLen(Head(b)) + BufLen(Tail(b))

Bytes(data) ==
    IF data.len = 0 THEN <<>> ELSE <<[id |-> data.id, lo |-> 1, hi |-> data.len]>>

SaturatingSub(a, b) == IF a > b THEN a - b ELSE 0

\* Vec::drain(0..n): remove the first n bytes
RECURSIVE Drain(_, _)
Drain(b, n) ==
    IF n = 0 \/ b = <<>> THEN b
    ELSE IF SegLen(Head(b)) <= n THEN Drain(Tail(b), n - SegLen(Head(b)))
    ELSE <<[Head(b) EXCEPT !.lo = @ + n]>> \o Tail(b)

AddToBufferNoTrim(buf, data) == buf \o Bytes(data)

AddToBufferDropsRun(buf, data) ==
    LET extended == buf \o Bytes(data)
    IN  IF BufLen(extended) > MAX_BUFFER_SIZE THEN Tail(extended) ELSE extended

AddToBuffer(buf, data) ==
    LET extended == buf \o Bytes(data)
    IN  IF BufLen(extended) > MAX_BUFFER_SIZE
        THEN Drain(extended, SaturatingSub(BufLen(extended), MAX_BUFFER_SIZE))
        ELSE extended

(***************************************************************************)
(* The consecutive-error counter                                           *)
(***************************************************************************)
ReachedLimitLate(c) == c > MAX_RETRY_ATTEMPTS

ReachedLimit(c) == c >= MAX_RETRY_ATTEMPTS

\* `*count += 1; if *count >= MAX_RETRY_ATTEMPTS { store(false); *count = 0 }`
OnError ==
    LET c == retry_count + 1
    IN  /\ last_incr' = c
        /\ connected' = (IF ReachedLimit(c) THEN FALSE ELSE connected)
        /\ retry_count' = (IF ReachedLimit(c) THEN 0 ELSE c)

OnSuccessKeepsCount ==
    /\ last_incr' = 0
    /\ UNCHANGED <<retry_count, connected>>

\* `*count = 0`
OnSuccess ==
    /\ last_incr' = 0
    /\ retry_count' = 0
    /\ connected' = connected

NoCount ==
    /\ last_incr' = 0
    /\ UNCHANGED <<retry_count, connected>>

RetryExhaustedLate(a) == a > MAX_RETRY_ATTEMPTS

RetryExhausted(a) == a >= MAX_RETRY_ATTEMPTS

\* nothing given, nothing returned, no request issued yet
NoInput == [fn |-> "none"]
NoOutput == [kind |-> "none"]
NoRequest == 0 - 1

\* Option<OpsecValidator>::None
NoValidator == [some |-> FALSE]

\* a call that returns at once, having issued no request
Immediate(name, res) ==
    /\ call' = name
    /\ busy' = FALSE
    /\ attempt' = 0
    /\ success' = FALSE
    /\ events' = <<>>
    /\ result' = res

\* a call that enters its retry loop
EnterLoop(name) ==
    /\ call' = name
    /\ busy' = TRUE
    /\ attempt' = 0
    /\ success' = FALSE
    /\ events' = <<>>
    /\ result' = "pending"

(***************************************************************************)
(* C2Adapter::initialize                                                   *)
(***************************************************************************)
InitOutcomes(p) ==
    IF p = SliverName THEN {"ok", "transport_error"}
    ELSE {"ok", "api_error", "transport_error"}

\* the part of initialize before its retry loop
Initialize ==
    /\ last_incr' = 0
    /\ retry_count' = 0
    /\ api_configured' =
          (IF plugin = MythicName THEN api_configured \/ cfg_keys
           ELSE api_configured)
    /\ IF plugin = NullName \/ (plugin = MythicName /\ ~api_configured')
       THEN Immediate("initialize", "ok")
       ELSE EnterLoop("initialize")
    /\ UNCHANGED <<connected, buffer, last_check_time, cleanup_invoked,
                   call_data, delivered>>

\* one iteration of initialize's loop: the request, the retry check and the
\* backoff sleep; backoff_some is whether next_backoff() returned Some
InitializeAttempt(outcome, backoff_some) ==
    /\ busy
    /\ call = "initialize"
    /\ LET a == attempt + 1
           ok == outcome = "ok"
           sleeps == ~ok /\ ~RetryExhausted(a) /\ backoff_some
       IN  /\ attempt' = a
           /\ success' = ok
           /\ events' = events \o <<outcome>>
                               \o (IF sleeps THEN <<"sleep">> ELSE <<>>)
           /\ busy' = sleeps
           /\ result' = (IF sleeps THEN "pending" ELSE "ok")
           /\ connected' =
                 (IF ok THEN TRUE
                  ELSE IF plugin = SliverName /\ ~sleeps THEN TRUE
                  ELSE connected)
    /\ last_incr' = 0
    /\ UNCHANGED <<api_configured, retry_count, buffer, last_check_time,
                   cleanup_invoked, call, call_data, delivered>>

(***************************************************************************)
(* C2Adapter::send                                                         *)
(***************************************************************************)
SendOutcomes == {"ok", "api_error", "transport_error"}

SendSkipsNever(p, conf, conn) == p = NullName

\* send returns Ok(()) at once: the Null adapter, an unconfigured Mythic
\* adapter, a disconnected adapter
SendSkips(p, conf, conn) ==
    \/ p = NullName
    \/ (p = MythicName /\ ~conf)
    \/ ~conn

\* the part of send before its retry loop (all of it for Sliver)
Send(d) ==
    /\ call_data' = d
    /\ IF SendSkips(plugin, api_configured, connected)
       THEN /\ Immediate("send", "ok")
            /\ NoCount
            /\ UNCHANGED <<buffer, delivered>>
       ELSE IF plugin = SliverName
       THEN /\ Immediate("send", "ok")
            /\ buffer' = AddToBuffer(buffer, d)
            /\ delivered' = Append(delivered, d)
            /\ OnSuccess
       ELSE /\ EnterLoop("send")
            /\ NoCount
            /\ UNCHANGED <<buffer, delivered>>
    /\ UNCHANGED <<api_configured, last_check_time, cleanup_invoked>>

\* one iteration of send's loop (CobaltStrike, Mythic)
SendAttempt(outcome, backoff_some) ==
    /\ busy
    /\ call = "send"
    /\ LET a == attempt + 1
           ok == outcome = "ok"
           stop == RetryExhausted(a) \/ ok
           sleeps == ~stop /\ backoff_some
       IN  /\ attempt' = a
           /\ success' = ok
           /\ IF ok
              THEN /\ buffer' = AddToBuffer(buffer, call_data)
                   /\ delivered' = Append(delivered, call_data)
                   /\ OnSuccess
              ELSE /\ OnError
                   /\ UNCHANGED <<buffer, delivered>>
           /\ events' = events \o <<outcome>>
                               \o (IF sleeps THEN <<"sleep">> ELSE <<>>)
           /\ busy' = sleeps
           /\ result' = (IF sleeps THEN "pending" ELSE "ok")
    /\ UNCHANGED <<api_configured, last_check_time, cleanup_invoked, call,
                   call_data>>

(***************************************************************************)
(* C2Adapter::receive                                                      *)
(***************************************************************************)
ReceiveOutcomes(p) ==
    IF p = CobaltName
    THEN {"data", "empty", "status_error", "body_error", "timeout",
          "transport_error"}
    ELSE IF p = MythicName
    THEN {"task", "no_task", "api_error", "timeout", "transport_error"}
    ELSE {"none"}

\* MythicPlugin::should_check_for_tasks, without its store
ShouldCheckForTasks == now - last_check_time >= TASK_CHECK_INTERVAL

ReceiveSkips ==
    \/ plugin = NullName
    \/ (plugin = MythicName /\ ~api_configured)
    \/ ~connected
    \/ (plugin = MythicName /\ ~ShouldCheckForTasks)

Receive(outcome) ==
    /\ IF ReceiveSkips
       THEN /\ Immediate("receive", "empty")
            /\ NoCount
            /\ UNCHANGED last_check_time
       ELSE IF plugin = SliverName
       THEN /\ Immediate("receive", "empty")
            /\ OnSuccess
            /\ UNCHANGED last_check_time
       ELSE /\ call' = "receive"
            /\ busy' = FALSE
            /\ attempt' = 0
            /\ success' = FALSE
            /\ events' = <<outcome>>
            /\ last_check_time' =
                  (IF plugin = MythicName THEN now ELSE last_check_time)
            /\ result' = (IF outcome \in {"data", "task"} THEN "data"
                          ELSE IF outcome = "body_error" THEN "err"
                          ELSE "empty")
            /\ IF outcome \in {"data", "task", "no_task"} THEN OnSuccess
               ELSE IF outcome \in {"transport_error", "api_error"} THEN OnError
               ELSE NoCount
    /\ UNCHANGED <<api_configured, buffer, cleanup_invoked, call_data, delivered>>

(***************************************************************************)
(* C2Adapter::cleanup                                                      *)
(***************************************************************************)
CleanupOutcomes == {"ok", "api_error", "transport_error"}

Cleanup(outcome) ==
    /\ call' = "cleanup"
    /\ busy' = FALSE
    /\ attempt' = 0
    /\ success' = FALSE
    /\ result' = "ok"
    /\ cleanup_invoked' = TRUE
    /\ events' =
          (IF connected /\ (plugin = CobaltName
                            \/ (plugin = MythicName /\ api_configured))
           THEN <<outcome>> ELSE <<>>)
    /\ connected' =
          (IF plugin = NullName \/ (plugin = MythicName /\ ~api_configured)
           THEN connected ELSE FALSE)
    /\ buffer' = <<>>
    /\ delivered' = <<>>
    /\ last_incr' = 0
    /\ UNCHANGED <<api_configured, retry_count, last_check_time, call_data>>

(***************************************************************************)
(* SpecAdapter: the methods of one adapter object, called one after the    *)
(* other in any order                                                      *)
(***************************************************************************)
NoData == [id |-> 0, len |-> 0]

\* the adapter as its constructor leaves it (NullPlugin::new ... MythicPlugin::new)
NewAdapter ==
    /\ plugin \in PluginNames
    /\ cfg_keys \in (IF plugin = MythicName THEN BOOLEAN ELSE {FALSE})
    /\ api_configured = FALSE
    /\ connected = FALSE
    /\ retry_count = 0
    /\ buffer = <<>>
    /\ now = 0
    /\ last_check_time = now
    /\ cleanup_invoked = FALSE
    /\ call = "none"
    /\ busy = FALSE
    /\ attempt = 0
    /\ success = FALSE
    /\ call_data = NoData
    /\ events = <<>>
    /\ result = "none"
    /\ last_incr = 0
    /\ delivered = <<>>

NoSession ==
    /\ opsec_validator = NoValidator
    /\ wall = [hour |-> 12, weekday |-> 0, month |-> 6, day |-> 15]
    /\ running = TRUE
    /\ lock_held = FALSE
    /\ hpc = "idle"
    /\ pc = "none"
    /\ current_command = <<>>
    /\ history = <<>>
    /\ entered = 0
    /\ warned = 0
    /\ emitted = 0
    /\ added = 0
    /\ output = NoOutput
    /\ frac = 0
    /\ last_request = NoRequest

InitAdapter ==
    /\ NewAdapter
    /\ ncalls = 0
    /\ sent_all = <<>>
    /\ NoSession
    /\ input = NoInput

CallInitialize ==
    /\ ~busy
    /\ ncalls < MaxCalls
    /\ Initialize
    /\ ncalls' = ncalls + 1
    /\ UNCHANGED <<plugin, cfg_keys, sent_all, driverVars, now, added, auxVars>>

StepInitialize ==
    /\ \E outcome \in InitOutcomes(plugin), backoff_some \in BOOLEAN :
          InitializeAttempt(outcome, backoff_some)
    /\ UNCHANGED <<plugin, cfg_keys, ghostVars, driverVars, now, added, auxVars>>

CallSend ==
    /\ ~busy
    /\ ncalls < MaxCalls
    /\ \E len \in PayloadSizes :
          LET d == [id |-> ncalls + 1, len |-> len]
          IN  /\ Send(d)
              /\ sent_all' = Append(sent_all, d)
    /\ ncalls' = ncalls + 1
    /\ UNCHANGED <<plugin, cfg_keys, driverVars, now, added, auxVars>>

StepSend ==
    /\ \E outcome \in SendOutcomes, backoff_some \in BOOLEAN :
          SendAttempt(outcome, backoff_some)
    /\ UNCHANGED <<plugin, cfg_keys, ghostVars, driverVars, now, added, auxVars>>

CallReceive ==
    /\ ~busy
    /\ ncalls < MaxCalls
    /\ \E outcome \in ReceiveOutcomes(plugin) : Receive(outcome)
    /\ ncalls' = ncalls + 1
    /\ UNCHANGED <<plugin, cfg_keys, sent_all, driverVars, now, added, auxVars>>

CallCleanup ==
    /\ ~busy
    /\ ncalls < MaxCalls
    /\ \E outcome \in CleanupOutcomes : Cleanup(outcome)
    /\ ncalls' = ncalls + 1
    /\ sent_all' = <<>>
    /\ UNCHANGED <<plugin, cfg_keys, driverVars, now, added, auxVars>>

\* the clock advances; only the Mythic adapter reads it
Tick ==
    /\ plugin = MythicName
    /\ now < MaxTime
    /\ now' = now + 1
    /\ UNCHANGED <<adapterVars, callVars, ghostVars, driverVars, added, auxVars>>

NextAdapter ==
    \/ CallInitialize
    \/ StepInitialize
    \/ CallSend
    \/ StepSend
    \/ CallReceive
    \/ CallCleanup
    \/ Tick

SpecAdapter == InitAdapter /\ [][NextAdapter]_vars

(***************************************************************************)
(* Keys and strings (input.rs).  A string is a sequence of characters.     *)
(***************************************************************************)
KeyChars == {"a", " ", "[", "é"}

NamedKeys == {"Enter", "Backspace", "Tab", "Escape", "ArrowUp", "ArrowDown",
              "ArrowLeft", "ArrowRight", "Home", "End", "PageUp", "PageDown",
              "Delete", "Other"}

Keys == {[kind |-> "Char", c |-> ch] : ch \in KeyChars}
           \cup {[kind |-> k] : k \in NamedKeys}
           \cup {[kind |-> "Function", n |-> 1]}

Digit(n) == <<"0", "1", "2", "3", "4", "5", "6", "7", "8", "9">>[n + 1]

\* format!("{}", n) for a u8
RECURSIVE Decimal(_)
Decimal(n) == IF n < 10 THEN <<Digit(n)>> ELSE Decimal(n \div 10) \o <<Digit(n % 10)>>

BackspaceText == <<"[", "B", "A", "C", "K", "S", "P", "A", "C", "E", "]">>

\* impl ToString for Key
KeyToString(key) ==
    CASE key.kind = "Char"       -> <<key.c>>
      [] key.kind = "Enter"      -> <<"\n">>
      [] key.kind = "Tab"        -> <<"\t">>
      [] key.kind = "Backspace"  -> BackspaceText
      [] key.kind = "Escape"     -> <<"[", "E", "S", "C", "]">>
      [] key.kind = "ArrowUp"    -> <<"[", "U", "P", "]">>
      [] key.kind = "ArrowDown"  -> <<"[", "D", "O", "W", "N", "]">>
      [] key.kind = "ArrowLeft"  -> <<"[", "L", "E", "F", "T", "]">>
      [] key.kind = "ArrowRight" -> <<"[", "R", "I", "G", "H", "T", "]">>
      [] key.kind = "Home"       -> <<"[", "H", "O", "M", "E", "]">>
      [] key.kind = "End"        -> <<"[", "E", "N", "D", "]">>
      [] key.kind = "PageUp"     -> <<"[", "P", "G", "U", "P", "]">>
      [] key.kind = "PageDown"   -> <<"[", "P", "G", "D", "N", "]">>
      [] key.kind = "Delete"     -> <<"[", "D", "E", "L", "]">>
      [] key.kind = "Function"   -> <<"[", "F">> \o Decimal(key.n) \o <<"]">>
      [] key.kind = "Other"      -> <<"[", "K", "E", "Y", "]">>

\* bytes of a character in UTF-8; a character outside ASCII is written by its
\* code point where the module's character set lacks it
Utf8Len(c) ==
    IF c \in {"é", "U+0633", "U+0644", "U+0627", "U+0645", "U+062E", "U+062F",
              "U+062D", "U+0641", "U+0638", "U+0648", "U+0634", "U+0622",
              "U+06CC"}
    THEN 2
    ELSE IF c \in {"U+306E", "U+306F", "U+200F", "U+202B", "U+202C", "U+202E"}
    THEN 3
    ELSE 1

\* String::len(): the length in bytes
RECURSIVE StrLen(_)
StrLen(t) == IF t = <<>> THEN 0 ELSE Utf8Len(Head(t)) + StrLen(Tail(t))

\* str::contains(char)
ContainsChar(t, c) == \E i \in DOMAIN t : t[i] = c

\* str::contains(&str)
ContainsStr(t, pat) ==
    \E i \in 0..(Len(t) - Len(pat)) : SubSeq(t, i + 1, i + Len(pat)) = pat

IsWhitespace(c) == c \in {" ", "\n", "\t"}

\* str::trim().is_empty()
TrimIsEmpty(t) == \A i \in DOMAIN t : IsWhitespace(t[i])

UpperLetters == <<"A", "B", "C", "D", "E", "F", "G", "H", "I", "J", "K", "L", "M",
                  "N", "O", "P", "Q", "R", "S", "T", "U", "V", "W", "X", "Y", "Z">>
LowerLetters == <<"a", "b", "c", "d", "e", "f", "g", "h", "i", "j", "k", "l", "m",
                  "n", "o", "p", "q", "r", "s", "t", "u", "v", "w", "x", "y", "z">>

\* str::to_lowercase()
ToLowercase(t) ==
    [i \in DOMAIN t |->
        IF \E k \in DOMAIN UpperLetters : UpperLetters[k] = t[i]
        THEN LowerLetters[CHOOSE k \in DOMAIN UpperLetters : UpperLetters[k] = t[i]]
        ELSE t[i]]

(***************************************************************************)
(* OpsecValidator (command.rs)                                             *)
(***************************************************************************)
Valid == [kind |-> "Valid"]
Warning(why) == [kind |-> "Warning", why |-> why]

\* Persona::russian_apt, as Mode::new hands it to OpsecValidator::with_config
RussianValidator ==
    [some |-> TRUE, timezone_offset |-> 3, country_code |-> "RU", language_code |-> "ru",
     working_hours |-> <<9, 18>>, weekend_days |-> {5, 6},
     holidays |-> {<<1, 1>>, <<1, 2>>, <<1, 7>>, <<2, 23>>, <<3, 8>>, <<5, 1>>,
                   <<5, 9>>, <<6, 12>>, <<11, 4>>}]

\* OpsecValidator::language_specific_checks
LanguageSpecificChecks(v, original) ==
    LET cmd == ToLowercase(original)
    IN  IF v.language_code = "ru" /\ ContainsStr(cmd, <<"c", "o", "l", "o", "r">>)
        THEN Warning("spelling")
        ELSE IF v.language_code = "de" /\ ContainsStr(cmd, <<"\\">>)
        THEN Warning("separator")
        ELSE IF /\ v.language_code \in {"fa", "ar"}
                /\ \/ ContainsStr(cmd, <<"L", "R", "M">>)
                   \/ ContainsStr(cmd, <<"L", "E", "F", "T", "-", "T", "O", "-",
                                         "R", "I", "G", "H", "T">>)
        THEN Warning("ltr")
        ELSE IF /\ v.language_code = "zh"
                /\ (ContainsStr(cmd, <<"U+306E">>) \/ ContainsStr(cmd, <<"U+306F">>))
        THEN Warning("japanese")
        ELSE IF /\ v.country_code # "US"
                /\ \/ ContainsStr(cmd, <<"/", "u", "s", "e", "r", "s", "/">>)
                   \/ ContainsStr(cmd, <<"/", "d", "e", "s", "k", "t", "o", "p", "/">>)
                   \/ ContainsStr(cmd, <<"/", "d", "o", "c", "u", "m", "e", "n",
                                         "t", "s", "/">>)
        THEN Warning("directory")
        ELSE Valid

ValidateWeekendFirst(v, original, w) ==
    LET target_hour == (w.hour + v.timezone_offset) % 24
    IN  IF w.weekday \in v.weekend_days THEN Warning("weekend")
        ELSE IF target_hour < v.working_hours[1] \/ target_hour > v.working_hours[2]
        THEN Warning("hours")
        ELSE IF <<w.month, w.day>> \in v.holidays THEN Warning("holiday")
        ELSE LanguageSpecificChecks(v, original)

\* OpsecValidator::validate; w is Local::now()
Validate(v, original, w) ==
    LET target_hour == (w.hour + v.timezone_offset) % 24
    IN  IF target_hour < v.working_hours[1] \/ target_hour > v.working_hours[2]
        THEN Warning("hours")
        ELSE IF w.weekday \in v.weekend_days THEN Warning("weekend")
        ELSE IF <<w.month, w.day>> \in v.holidays THEN Warning("holiday")
        ELSE LanguageSpecificChecks(v, original)

(***************************************************************************)
(* CommandHistoryManager (command.rs)                                      *)
(***************************************************************************)
CommandHistoryAddDropsNewest(h, command, max_entries) ==
    LET pushed == Append(h, command)
    IN  IF Len(pushed) > max_entries
        THEN SubSeq(pushed, 1, Len(pushed) - 1)
        ELSE pushed

\* CommandHistoryManager::add
CommandHistoryAdd(h, command, max_entries) ==
    LET pushed == Append(h, command)
    IN  IF Len(pushed) > max_entries THEN Tail(pushed) ELSE pushed

(***************************************************************************)
(* SpecHistory: add called on one CommandHistoryManager; the n-th command  *)
(* added is written n                                                      *)
(***************************************************************************)
InitHistory ==
    /\ NewAdapter
    /\ plugin = NullName
    /\ ncalls = 0
    /\ sent_all = <<>>
    /\ NoSession
    /\ input = NoInput

HistoryAdd ==
    /\ added < MaxAdds
    /\ history' = CommandHistoryAdd(history, added + 1, HISTORY_MAX_ENTRIES)
    /\ added' = added + 1
    /\ UNCHANGED <<adapterVars, callVars, ghostVars, now, opsec_validator, wall,
                   running, lock_held, hpc, pc, current_command, entered,
                   warned, emitted, auxVars>>

NextHistory == HistoryAdd

SpecHistory == InitHistory /\ [][NextHistory]_vars

(***************************************************************************)
(* LanguageTransformer (obfuscation.rs)                                    *)
(***************************************************************************)
\* str::starts_with
StartsWith(t, p) == Len(t) >= Len(p) /\ SubSeq(t, 1, Len(p)) = p

\* str::split(char)
RECURSIVE SplitOn(_, _)
SplitOn(t, c) ==
    IF ~ContainsChar(t, c) THEN <<t>>
    ELSE LET i == CHOOSE k \in DOMAIN t :
                     t[k] = c /\ \A j \in 1..(k - 1) : t[j] # c
         IN  <<SubSeq(t, 1, i - 1)>> \o SplitOn(SubSeq(t, i + 1, Len(t)), c)

\* str::split_whitespace
RECURSIVE SplitWhitespace(_)
SplitWhitespace(t) ==
    IF t = <<>> THEN <<>>
    ELSE IF IsWhitespace(t[1]) THEN SplitWhitespace(Tail(t))
    ELSE LET n == CHOOSE k \in DOMAIN t :
                     /\ \A j \in 1..k : ~IsWhitespace(t[j])
                     /\ k = Len(t) \/ IsWhitespace(t[k + 1])
         IN  <<SubSeq(t, 1, n)>> \o SplitWhitespace(SubSeq(t, n + 1, Len(t)))

\* [String]::join
RECURSIVE Join(_, _)
Join(parts, sep) ==
    IF parts = <<>> THEN <<>>
    ELSE IF Len(parts) = 1 THEN parts[1]
    ELSE parts[1] \o sep \o Join(Tail(parts), sep)

\* for_language_internal: the dictionary of a language, all of it for "de",
\* the entries of the words the texts below are made of for "fa", empty for
\* a language without one
Dictionary(language) ==
    CASE language = "de" ->
            (<<"h", "e", "l", "l", "o">> :> <<"h", "a", "l", "l", "o">>)
         @@ (<<"w", "o", "r", "l", "d">> :> <<"w", "e", "l", "t">>)
         @@ (<<"y", "e", "s">> :> <<"j", "a">>)
         @@ (<<"n", "o">> :> <<"n", "e", "i", "n">>)
         @@ (<<"p", "l", "e", "a", "s", "e">> :> <<"b", "i", "t", "t", "e">>)
         @@ (<<"t", "h", "a", "n", "k">> :> <<"d", "a", "n", "k", "e">>)
         @@ (<<"y", "o", "u">> :> <<"d", "u">>)
         @@ (<<"g", "o", "o", "d", "b", "y", "e">> :>
                <<"a", "u", "f", " ", "w", "i", "e", "d", "e", "r", "s", "e", "h",
                  "e", "n">>)
      [] language = "fa" ->
            (<<"h", "e", "l", "l", "o">> :>
                <<"U+0633", "U+0644", "U+0627", "U+0645">>)
         @@ (<<"g", "o", "o", "d", "b", "y", "e">> :>
                <<"U+062E", "U+062F", "U+0627", "U+062D", "U+0627", "U+0641",
                  "U+0638">>)
         @@ (<<"w", "e", "l", "c", "o", "m", "e">> :>
                <<"U+062E", "U+0648", "U+0634", " ", "U+0622", "U+0645", "U+062F",
                  "U+06CC", "U+062F">>)
      [] OTHER -> [w \in {} |-> w]

\* LanguageTransformer::is_rtl
IsRtl(language) == language \in {"ar", "fa"}

TranslateJoinsBare(language, text) ==
    LET dict == Dictionary(language)
        words == SplitWhitespace(text)
    IN  Join([i \in DOMAIN words |->
                 IF words[i] \in DOMAIN dict THEN dict[words[i]] ELSE words[i]],
             <<>>)

\* transform, its dictionary pass: split, look each word up, join
Translate(language, text) ==
    LET dict == Dictionary(language)
        words == SplitWhitespace(text)
    IN  Join([i \in DOMAIN words |->
                 IF words[i] \in DOMAIN dict THEN dict[words[i]] ELSE words[i]],
             <<" ">>)

\* str::is_char_boundary
IsCharBoundary(t, pos) == \E k \in 0..Len(t) : StrLen(SubSeq(t, 1, k)) = pos

\* add_farsi_fingerprints with the trials of rules 1 and 3 to 6 failed: rule
\* names the outcome of rule 2's trial, "none" when it failed, else the
\* strategy drawn.  Slicing a string inside a character panics.
AddFarsiFingerprints(text, rule) ==
    LET rtl_mark == <<"U+200F">>
        rtl_embed == <<"U+202B">>
        rtl_override == <<"U+202E">>
        pop_dir == <<"U+202C">>
        quoted == SplitOn(text, "\"")
        piped == SplitOn(text, "|")
        pos == StrLen(text) \div 2
        k == CHOOSE j \in 0..Len(text) : StrLen(SubSeq(text, 1, j)) = pos
    IN  CASE rule = "none" -> [kind |-> "text", text |-> text]
          [] rule = "mark_start" -> [kind |-> "text", text |-> rtl_mark \o text]
          [] rule = "mark_inside" ->
                IF ContainsChar(text, "\"")
                THEN [kind |-> "text",
                      text |-> Join([i \in DOMAIN quoted |->
                                  IF i > 1 /\ (i - 1) % 2 = 1
                                  THEN <<"\"">> \o rtl_mark \o quoted[i] \o rtl_mark
                                  ELSE IF i < Len(quoted) /\ (i - 1) % 2 = 0
                                  THEN quoted[i] \o <<"\"">>
                                  ELSE quoted[i]], <<>>)]
                ELSE IF pos < StrLen(text)
                THEN IF IsCharBoundary(text, pos)
                     THEN [kind |-> "text",
                           text |-> SubSeq(text, 1, k) \o rtl_mark
                                       \o SubSeq(text, k + 1, Len(text))]
                     ELSE [kind |-> "panic"]
                ELSE [kind |-> "text", text |-> text]
          [] rule = "embed" ->
                IF ContainsChar(text, "|")
                THEN [kind |-> "text",
                      text |-> Join([i \in DOMAIN piped |->
                                  IF i > 1
                                  THEN <<"|">> \o rtl_embed \o piped[i] \o pop_dir
                                  ELSE piped[i]], <<>>)]
                ELSE [kind |-> "text", text |-> rtl_override \o text \o pop_dir]


\* add_chinese_fingerprints, its replacement of a full command (lines
\* 991-1021), the trial of each command that applies succeeded
RECURSIVE ChineseCommands(_, _)
ChineseCommands(modified, cmd_replacements) ==
    IF cmd_replacements = <<>> THEN modified
    ELSE LET cmd == cmd_replacements[1][1]
             replacement == cmd_replacements[1][2]
             pipe_cmd == <<"|", " ">> \o cmd
             pos == CHOOSE i \in 0..Len(modified) :
                        /\ SubSeq(modified, i + 1, i + Len(pipe_cmd)) = pipe_cmd
                        /\ \A j \in 0..(i - 1) :
                               SubSeq(modified, j + 1, j + Len(pipe_cmd)) # pipe_cmd
         IN  IF /\ StartsWith(modified, cmd)
                /\ \/ Len(modified) = Len(cmd)
                   \/ IsWhitespace(modified[Len(cmd) + 1])
             THEN replacement \o SubSeq(modified, Len(cmd) + 1, Len(modified))
             ELSE IF ContainsStr(modified, pipe_cmd)
             THEN SubSeq(modified, 1, pos + 2) \o replacement
                     \o SubSeq(modified, pos + 2 + Len(cmd) + 1, Len(modified))
             ELSE ChineseCommands(modified, Tail(cmd_replacements))

\* add_chinese_fingerprints with the trials of rules 2 and later failed and
\* no variable name replaced: rule is "command" when rule 1's trial
\* succeeded
AddChineseFingerprints(text, rule) ==
    IF rule = "command"
    THEN ChineseCommands(text,
            << <<(<<"l", "s">>), <<"l", "i", "e", "b", "i", "a", "o">> >>,
               <<(<<"f", "i", "n", "d">>), <<"c", "h", "a", "z", "h", "a", "o">> >>,
               <<(<<"c", "a", "t">>), <<"m", "a", "o">> >>,
               <<(<<"g", "r", "e", "p">>), <<"g", "u", "o", "l", "v">> >>,
               <<(<<"c", "d">>), <<"j", "i", "n", "r", "u">> >>,
               <<(<<"c", "p">>), <<"f", "u", "z", "h", "i">> >>,
               <<(<<"m", "v">>), <<"y", "i", "d", "o", "n", "g">> >>,
               <<(<<"r", "m">>), <<"s", "h", "a", "n", "c", "h", "u">> >>,
               <<(<<"t", "o", "u", "c", "h">>),
                 <<"c", "h", "u", "a", "n", "g", "j", "i", "a", "n">> >>,
               <<(<<"m", "k", "d", "i", "r">>),
                 <<"c", "h", "u", "a", "n", "g", "j", "i", "a", "n", "m", "u", "l",
                   "u">> >> >>)
    ELSE text

\* the outcomes of the trials the model follows, by attribution region
Rules(region) ==
    CASE region = "fa" -> {"none", "mark_start", "mark_inside", "embed"}
      [] region = "zh" -> {"none", "command"}
      [] OTHER -> {"none"}

\* identify_protected_contexts: the spans to protect.  The flag pattern is
\* searched as text, not as a regular expression.
IdentifyProtectedContexts(text) ==
    LET flag_pattern == <<"s", "-", "[", "a", "-", "z", "A", "-", "Z", "]", "|",
                          "\\", "s", "-", "-", "[", "a", "-", "z", "A", "-", "Z",
                          "-", "]", "+">>
        parts == SplitWhitespace(text)
        digits == {"0", "1", "2", "3", "4", "5", "6", "7", "8", "9"}
        num_dots(part) == Cardinality({i \in DOMAIN part : part[i] = "."})
        num_digits(part) == Cardinality({i \in DOMAIN part : part[i] \in digits})
        common_commands ==
            {<<"l", "s">>, <<"g", "r", "e", "p">>, <<"f", "i", "n", "d">>,
             <<"c", "a", "t">>, <<"h", "e", "a", "d">>, <<"t", "a", "i", "l">>,
             <<"c", "p">>, <<"m", "v">>, <<"r", "m">>,
             <<"m", "k", "d", "i", "r">>, <<"c", "h", "m", "o", "d">>,
             <<"c", "h", "o", "w", "n">>, <<"p", "s">>, <<"t", "o", "p">>,
             <<"d", "f">>, <<"d", "u">>, <<"s", "s", "h">>, <<"s", "c", "p">>,
             <<"c", "u", "r", "l">>, <<"w", "g", "e", "t">>}
    IN  {flag \in {flag_pattern} : ContainsStr(text, flag)}
        \cup {parts[i] : i \in {k \in DOMAIN parts :
                 \/ /\ ContainsChar(parts[k], "/")
                    /\ ~StartsWith(parts[k], <<"h", "t", "t", "p">>)
                 \/ StartsWith(parts[k], <<"h", "t", "t", "p", ":", "/", "/">>)
                 \/ StartsWith(parts[k], <<"h", "t", "t", "p", "s", ":", "/", "/">>)
                 \/ /\ num_digits(parts[k]) >= 1
                    /\ num_dots(parts[k]) \in 1..2
                    /\ num_digits(parts[k]) >= 2}}
        \cup {cmd \in common_commands :
                 \/ /\ StartsWith(text, cmd)
                    /\ \/ Len(text) = Len(cmd)
                       \/ IsWhitespace(text[Len(cmd) + 1])
                 \/ ContainsStr(text, <<"|", " ">> \o cmd)}

\* add_attribution_fingerprints_with_context: the fingerprints of the region
\* on the whole text; restore_protected_parts returns its text as given
AddAttributionFingerprints(region, text, rule) ==
    CASE region = "fa" -> AddFarsiFingerprints(text, rule)
      [] region = "zh" ->
            [kind |-> "text", text |-> AddChineseFingerprints(text, rule)]
      [] OTHER -> [kind |-> "text", text |-> text]

\* transform up to its joined text: the translation, wrapped in direction
\* controls for a right-to-left language
JoinedText(language, text) ==
    IF IsRtl(language)
    THEN <<"U+200F", "U+202B">> \o Translate(language, text) \o <<"U+202C">>
    ELSE Translate(language, text)

\* LanguageTransformer::transform
Transform(language, region, text, rule) ==
    AddAttributionFingerprints(region, JoinedText(language, text), rule)

(***************************************************************************)
(* Spec: one session.  main builds the mode and the adapter, installs the  *)
(* Ctrl-C handler and calls Mode::run.  pc is the position of run, hpc the *)
(* position of the handler thread.  Key mapping and the timestamp are left *)
(* out: they feed the display only.  Of the text shown, the model keeps    *)
(* whether transform returned it.                                          *)
(***************************************************************************)
WallSamples ==
    {[hour |-> 8, weekday |-> 2, month |-> 6, day |-> 15],
     [hour |-> 22, weekday |-> 2, month |-> 6, day |-> 15]}

\* Mode::new: no validator in Random mode, the persona's in Attribute mode
Validators == {NoValidator, RussianValidator}

\* Mode::new: the transformer of the configured or drawn language, its
\* attribution region the target given, or the language itself for the
\* target "random"
SessionTransformers ==
    {[fn |-> "session", language_transformer |-> [language |-> l, region |-> l]] :
        l \in {"en", "fa"}}

\* the texts an adapter's receive hands to the driver
ReceivedTexts == {<<"l", "s">>, <<"h", "e", "l", "l", "o">>}

\* the state run starts in: PluginManager::new has built the adapter and
\* called initialize once, whatever its result
Init ==
    /\ plugin \in PluginNames
    /\ cfg_keys \in (IF plugin = MythicName THEN BOOLEAN ELSE {FALSE})
    /\ api_configured = cfg_keys
    /\ connected \in (IF plugin = SliverName THEN {TRUE}
                      ELSE IF plugin = CobaltName \/ api_configured THEN BOOLEAN
                      ELSE {FALSE})
    /\ retry_count = 0
    /\ buffer = <<>>
    /\ now = 0
    /\ last_check_time = now
    /\ cleanup_invoked = FALSE
    /\ call = "none"
    /\ busy = FALSE
    /\ attempt = 0
    /\ success = FALSE
    /\ call_data = NoData
    /\ events = <<>>
    /\ result = "none"
    /\ last_incr = 0
    /\ delivered = <<>>
    /\ ncalls = 0
    /\ sent_all = <<>>
    /\ opsec_validator \in Validators
    /\ wall \in (IF ~opsec_validator.some
                 THEN {[hour |-> 8, weekday |-> 2, month |-> 6, day |-> 15]}
                 ELSE WallSamples)
    /\ running = TRUE
    /\ lock_held = FALSE
    /\ hpc = "idle"
    /\ pc = "loop"
    /\ current_command = <<>>
    /\ history = <<>>
    /\ entered = 0
    /\ warned = 0
    /\ emitted = 0
    /\ added = 0
    /\ input \in SessionTransformers
    /\ output = NoOutput
    /\ frac = 0
    /\ last_request = NoRequest

\* run has returned, the handler has exited the process, or a panic has
\* unwound the main task
SessionEnded == pc \in {"done", "panic"} \/ hpc = "exited"

\* the Ctrl-C handler up to its prompt: it takes the lock on running, which
\* it keeps, and stores false
Interrupt ==
    /\ hpc = "idle"
    /\ pc \notin {"done", "panic"}
    /\ ~lock_held
    /\ lock_held' = TRUE
    /\ running' = FALSE
    /\ hpc' = "prompt"
    /\ UNCHANGED <<adapterVars, callVars, ghostVars, now, added, auxVars, opsec_validator,
                   wall, pc, current_command, history, entered, warned, emitted>>

\* the rest of the handler: the answer read, perform_cleanup on "y", then
\* std::process::exit(0)
HandlerExit(answer) ==
    /\ hpc = "prompt"
    /\ hpc' = "exited"
    /\ UNCHANGED <<adapterVars, callVars, ghostVars, now, added, auxVars, opsec_validator,
                   wall, running, lock_held, pc, current_command, history,
                   entered, warned, emitted>>

\* while *running.lock().await
LoopCheck ==
    /\ pc = "loop"
    /\ hpc # "exited"
    /\ ~lock_held
    /\ pc' = (IF running THEN "read_key" ELSE "after_loop")
    /\ UNCHANGED <<adapterVars, callVars, ghostVars, now, added, auxVars, opsec_validator,
                   wall, running, lock_held, hpc, current_command, history,
                   entered, warned, emitted>>

PopNothing(t) == t

\* String::pop
Pop(t) == SubSeq(t, 1, Len(t) - 1)

\* the answer of the session's validator, Valid where there is none
Decision(command) ==
    IF ~opsec_validator.some THEN Valid
    ELSE Validate(opsec_validator, command, wall)

\* read_key returned Ok(key): the key is put into current_command and shown.
\* A failed display ends run with its error.
HandleKey(key, display_ok) ==
    /\ pc = "read_key"
    /\ hpc # "exited"
    /\ LET input_text == KeyToString(key)
           regular == StrLen(input_text) = 1 /\ ~ContainsChar(input_text, "[")
           complete == /\ ~regular
                       /\ input_text = <<"\n">>
                       /\ ~TrimIsEmpty(current_command)
           backspace == /\ ~regular
                        /\ input_text # <<"\n">>
                        /\ input_text = BackspaceText
                        /\ current_command # <<>>
           enter_counts == key.kind = "Enter" /\ ~TrimIsEmpty(current_command)
       IN  /\ regular => Len(current_command) < MaxLen
           /\ enter_counts => entered < MaxEntered
           /\ current_command' =
                 (IF regular THEN current_command \o input_text
                  ELSE IF backspace THEN Pop(current_command)
                  ELSE current_command)
           /\ entered' = (IF enter_counts THEN entered + 1 ELSE entered)
           /\ warned' =
                 (IF enter_counts /\ Decision(current_command).kind = "Warning"
                  THEN warned + 1 ELSE warned)
           /\ emitted' = (IF complete THEN emitted + 1 ELSE emitted)
           /\ pc' = (IF complete THEN "process_command"
                     ELSE IF display_ok THEN "receive"
                     ELSE "done")
    /\ UNCHANGED <<adapterVars, callVars, ghostVars, now, added, opsec_validator,
                   wall, running, lock_held, hpc, history>>

\* one pass of the loop body up to the display, what is displayed left out
RunKey(key, display_ok) == HandleKey(key, display_ok) /\ UNCHANGED auxVars

\* read_key returned Err (Ctrl-C read as a key event, or an I/O error): break
ReadKeyError ==
    /\ pc = "read_key"
    /\ hpc # "exited"
    /\ pc' = "after_loop"
    /\ UNCHANGED <<adapterVars, callVars, ghostVars, now, added, auxVars, opsec_validator,
                   wall, running, lock_held, hpc, current_command, history,
                   entered, warned, emitted>>

PollCallsNull(outcome, text, rule, display_ok) ==
    /\ pc = "receive"
    /\ hpc # "exited"
    /\ Receive(outcome)
    /\ pc' = (IF result' = "data" /\ ~display_ok THEN "done" ELSE "loop")
    /\ UNCHANGED <<plugin, cfg_keys, ghostVars, now, added, auxVars,
                   opsec_validator, wall, running, lock_held, hpc,
                   current_command, history, entered, warned, emitted>>

\* the check for data from the adapter that ends every iteration: text
\* received is transformed and shown.  A panic of transform unwinds run; a
\* failed display ends run with its error.
Poll(outcome, text, rule, display_ok) ==
    /\ pc = "receive"
    /\ hpc # "exited"
    /\ IF plugin = NullName
       THEN /\ pc' = "loop"
            /\ UNCHANGED <<adapterVars, callVars>>
       ELSE /\ Receive(outcome)
            /\ pc' = (IF result' # "data" THEN "loop"
                      ELSE IF Transform(input.language_transformer.language,
                                        input.language_transformer.region,
                                        text, rule).kind = "panic"
                      THEN "panic"
                      ELSE IF ~display_ok THEN "done"
                      ELSE "loop")
            /\ UNCHANGED <<plugin, cfg_keys>>
    /\ UNCHANGED <<ghostVars, now, added, auxVars, opsec_validator, wall, running,
                   lock_held, hpc, current_command, history, entered, warned,
                   emitted>>

\* after the loop: the summary is shown and run returns to main, which
\* prints the result and returns
AfterLoop(display_ok) ==
    /\ pc = "after_loop"
    /\ hpc # "exited"
    /\ pc' = "done"
    /\ UNCHANGED <<adapterVars, callVars, ghostVars, now, added, auxVars, opsec_validator,
                   wall, running, lock_held, hpc, current_command, history,
                   entered, warned, emitted>>

\* Mode::process_command up to the adapter's answer, then clear().  The
\* bytes sent are those of the transformed command, of any length.  No key
\* makes RunKey take its branch, so it is no disjunct of Next.
ProcessCommand(message_shown, transformed_len) ==
    /\ pc = "process_command"
    /\ hpc # "exited"
    /\ LET decision == Decision(current_command)
           d == [id |-> emitted, len |-> transformed_len]
       IN  IF decision.kind # "Valid" /\ ~message_shown
           THEN /\ pc' = "done"
                /\ UNCHANGED <<adapterVars, callVars, ghostVars, history>>
           ELSE IF decision.kind = "Violation"
           THEN /\ pc' = "receive"
                /\ UNCHANGED <<adapterVars, callVars, ghostVars, history>>
           ELSE IF plugin = NullName
           THEN /\ history' = CommandHistoryAdd(history, current_command,
                                                HISTORY_MAX_ENTRIES)
                /\ pc' = "receive"
                /\ UNCHANGED <<adapterVars, callVars, ghostVars>>
           ELSE /\ history' = CommandHistoryAdd(history, current_command,
                                                HISTORY_MAX_ENTRIES)
                /\ Send(d)
                /\ sent_all' = Append(sent_all, d)
                /\ pc' = (IF busy' THEN "send" ELSE "receive")
                /\ UNCHANGED <<plugin, cfg_keys, ncalls>>
    /\ current_command' = <<>>
    /\ UNCHANGED <<now, added, auxVars, opsec_validator, wall, running, lock_held, hpc,
                   entered, warned, emitted>>

\* the driver waits for its send
ProcessCommandSend(outcome, backoff_some) ==
    /\ pc = "send"
    /\ hpc # "exited"
    /\ SendAttempt(outcome, backoff_some)
    /\ pc' = (IF busy' THEN "send" ELSE "receive")
    /\ UNCHANGED <<plugin, cfg_keys, ghostVars, now, added, auxVars, opsec_validator,
                   wall, running, lock_held, hpc, current_command, history,
                   entered, warned, emitted>>

\* the clock advances during a session
SessionTick ==
    /\ plugin = MythicName
    /\ ~SessionEnded
    /\ now < MaxTime
    /\ now' = now + 1
    /\ UNCHANGED <<adapterVars, callVars, ghostVars, driverVars, added, auxVars>>

Next ==
    \/ Interrupt
    \/ \E answer \in {"y", "n"} : HandlerExit(answer)
    \/ LoopCheck
    \/ \E key \in Keys, display_ok \in BOOLEAN : RunKey(key, display_ok)
    \/ ReadKeyError
    \/ \E outcome \in ReceiveOutcomes(plugin), text \in ReceivedTexts,
          rule \in Rules(input.language_transformer.region),
          display_ok \in BOOLEAN :
          Poll(outcome, text, rule, display_ok)
    \/ \E display_ok \in BOOLEAN : AfterLoop(display_ok)
    \/ SessionTick

Spec == Init /\ [][Next]_vars

(***************************************************************************)
(* SpecValidate: OpsecValidator::validate applied once to a command, for   *)
(* the validators Mode::new can build and a sample of clocks              *)
(***************************************************************************)
\* Persona::iranian_apt
IranianValidator ==
    [some |-> TRUE, timezone_offset |-> 3, country_code |-> "IR",
     language_code |-> "fa", working_hours |-> <<8, 16>>, weekend_days |-> {4, 5},
     holidays |-> {<<1, 1>>, <<1, 2>>, <<1, 3>>, <<1, 4>>, <<1, 13>>, <<2, 11>>,
                   <<3, 21>>, <<6, 5>>, <<11, 22>>}]

\* Persona::chinese_apt
ChineseValidator ==
    [some |-> TRUE, timezone_offset |-> 8, country_code |-> "CN",
     language_code |-> "zh", working_hours |-> <<9, 18>>, weekend_days |-> {5, 6},
     holidays |-> {<<1, 1>>, <<2, 1>>, <<2, 2>>, <<2, 3>>, <<5, 1>>, <<10, 1>>,
                   <<10, 2>>, <<10, 3>>}]

\* Persona::north_korean_apt
NorthKoreanValidator ==
    [some |-> TRUE, timezone_offset |-> 9, country_code |-> "KP",
     language_code |-> "ko", working_hours |-> <<8, 17>>, weekend_days |-> {6},
     holidays |-> {<<1, 1>>, <<2, 16>>, <<4, 15>>, <<7, 27>>, <<9, 9>>,
                   <<10, 10>>, <<12, 17>>}]

\* Persona::western_apt
WesternValidator ==
    [some |-> TRUE, timezone_offset |-> 0 - 5, country_code |-> "US",
     language_code |-> "en", working_hours |-> <<9, 17>>, weekend_days |-> {5, 6},
     holidays |-> {<<1, 1>>, <<5, 25>>, <<7, 4>>, <<9, 7>>, <<11, 11>>,
                   <<11, 26>>, <<12, 25>>}]

\* OpsecValidator::new, for a country without a persona
BasicValidator(timezone_offset, country_code, language_code) ==
    [some |-> TRUE, timezone_offset |-> timezone_offset,
     country_code |-> country_code, language_code |-> language_code,
     working_hours |-> <<9, 17>>, weekend_days |-> {5, 6}, holidays |-> {}]

AllValidators ==
    {RussianValidator, IranianValidator, ChineseValidator, NorthKoreanValidator,
     WesternValidator, BasicValidator(1, "DE", "de"),
     BasicValidator(3, "SA", "ar")}

\* Local::now(): hour, weekday (0 is Monday), month and day
ValidateClocks ==
    {[hour |-> h, weekday |-> wd, month |-> md[1], day |-> md[2]] :
        h \in {3, 10, 23}, wd \in {2, 4, 5, 6},
        md \in {<<6, 15>>, <<1, 1>>, <<6, 12>>, <<7, 4>>}}

\* the originals of the commands validated
ValidateCommands ==
    {<<"l", "s">>,
     <<"s", "e", "t", " ", "c", "o", "l", "o", "r">>,
     <<"C", "O", "L", "O", "R">>,
     <<"a", "\\", "b">>,
     <<"L", "R", "M">>,
     <<"U+306E">>,
     <<"c", "a", "t", " ", "/", "U", "s", "e", "r", "s", "/", "x">>,
     <<"c", "o", "l", "o", "r", " ", "/", "d", "e", "s", "k", "t", "o", "p", "/">>}

\* the variables no function under study reads
Unused ==
    /\ NewAdapter
    /\ plugin = NullName
    /\ ncalls = 0
    /\ sent_all = <<>>
    /\ NoSession

InitValidate ==
    /\ Unused
    /\ input \in {[fn |-> "validate", validator |-> v, wall |-> w, command |-> c] :
                     v \in AllValidators, w \in ValidateClocks,
                     c \in ValidateCommands}

ValidateCall ==
    /\ input.fn = "validate"
    /\ output = NoOutput
    /\ output' = Validate(input.validator, input.command, input.wall)
    /\ UNCHANGED <<adapterVars, callVars, ghostVars, driverVars, now, added,
                   input, frac, last_request>>

NextValidate == ValidateCall

SpecValidate == InitValidate /\ [][NextValidate]_vars

(***************************************************************************)
(* SpecPoll: one Mythic adapter with api_key and callback_uuid, initialized *)
(* and then polled with receive at any moments.  The clock advances in     *)
(* ticks of 1/TicksPerSecond s; the adapter reads its whole seconds.       *)
(***************************************************************************)
\* SystemTime::now() in ticks
RealTime == now * TicksPerSecond + frac

InitPoll ==
    /\ NewAdapter
    /\ plugin = MythicName
    /\ cfg_keys = TRUE
    /\ ncalls = 0
    /\ sent_all = <<>>
    /\ NoSession
    /\ input = NoInput

PollReceive ==
    /\ ~busy
    /\ \E outcome \in ReceiveOutcomes(plugin) : Receive(outcome)
    /\ last_request' = (IF events' # <<>> THEN RealTime ELSE last_request)
    /\ UNCHANGED <<plugin, cfg_keys, ghostVars, driverVars, now, added, input,
                   output, frac>>

PollTick ==
    /\ now < MaxPollTime
    /\ frac' = (frac + 1) % TicksPerSecond
    /\ now' = (IF frac + 1 = TicksPerSecond THEN now + 1 ELSE now)
    /\ UNCHANGED <<adapterVars, callVars, ghostVars, driverVars, added, input,
                   output, last_request>>

NextPoll ==
    \/ CallInitialize
    \/ StepInitialize
    \/ PollReceive
    \/ PollTick

SpecPoll == InitPoll /\ [][NextPoll]_vars

(***************************************************************************)
(* SpecTransform: LanguageTransformer::transform applied once to a text    *)
(***************************************************************************)
\* the texts of at most n pieces, a piece a word or a separator
Texts(n) ==
    LET Pieces ==
            {<<"h", "e", "l", "l", "o">>, <<"g", "o", "o", "d", "b", "y", "e">>,
             <<"w", "e", "l", "c", "o", "m", "e">>, <<"l", "s">>,
             <<"l", "a", "z", "y">>,
             <<"/", "e", "t", "c", "/", "p", "a", "s", "s", "w", "d">>,
             <<" ">>, <<"\"">>, <<"|">>}
    IN  UNION {{Join(ps, <<>>) : ps \in [1..k -> Pieces]} : k \in 0..n}

InitTransform ==
    /\ Unused
    /\ input \in {[fn |-> "transform", language |-> l, region |-> r, text |-> t,
                   rule |-> x] :
                     l \in {"en", "de", "fa"}, r \in {"en", "fa", "zh"},
                     t \in Texts(MaxPieces), x \in Rules("fa") \cup Rules("zh")}
    /\ input.rule \in Rules(input.region)

TransformCall ==
    /\ output = NoOutput
    /\ output' = Transform(input.language, input.region, input.text, input.rule)
    /\ UNCHANGED <<adapterVars, callVars, ghostVars, driverVars, now, added,
                   input, frac, last_request>>

NextTransform == TransformCall

SpecTransform == InitTransform /\ [][NextTransform]_vars

(***************************************************************************)
(* CommandPreprocessor (command.rs) and TransformationMetadata (plugins.rs)*)
(***************************************************************************)
\* KeyMapper::for_country, the character keys of the mapping: the German
\* layout for "DE", the identity for a country without a layout
KeyMapping(country) ==
    LET identity ==
            [c \in {LowerLetters[i] : i \in DOMAIN LowerLetters}
                   \cup {UpperLetters[i] : i \in DOMAIN UpperLetters}
                   \cup {"0", "1", "2", "3", "4", "5", "6", "7", "8", "9"} |-> c]
    IN  IF country = "DE"
        THEN ("y" :> "z") @@ ("z" :> "y") @@ ("Y" :> "Z") @@ ("Z" :> "Y")
             @@ ("[" :> "ü") @@ ("]" :> "+") @@ (";" :> "ö") @@ ("'" :> "ä")
             @@ identity
        ELSE identity

TransformationMetadataUtc(key_mapper, language_transformer, timestamp_emulator) ==
    [scheme_id |-> IF IsRtl(language_transformer.language) THEN "rtl" ELSE "ltr",
     key_mapping |-> KeyMapping(key_mapper),
     language_dict |-> Dictionary(language_transformer.language),
     timezone_offset |-> 0,
     version |-> "1.0"]

\* TransformationMetadata::new
TransformationMetadataNew(key_mapper, language_transformer, timestamp_emulator) ==
    [scheme_id |-> IF IsRtl(language_transformer.language) THEN "rtl" ELSE "ltr",
     key_mapping |-> KeyMapping(key_mapper),
     language_dict |-> Dictionary(language_transformer.language),
     timezone_offset |-> timestamp_emulator,
     version |-> "1.0"]

\* CommandPreprocessor::process; a panic of transform unwinds through it
Process(preprocessor, text, rule) ==
    LET transformed == Transform(preprocessor.language_transformer.language,
                                 preprocessor.language_transformer.region,
                                 text, rule)
    IN  IF transformed.kind = "panic" THEN transformed
        ELSE [kind |-> "command",
              original |-> text,
              transformed |-> transformed.text,
              metadata |-> TransformationMetadataNew(
                               preprocessor.key_mapper,
                               preprocessor.language_transformer,
                               preprocessor.timestamp_emulator)]

\* Mode::new in Attribute mode: the key mapper of the country, the
\* transformer of the language and attribution target, the emulator of the
\* timezone, and the preprocessor holding a clone of each; the command is
\* one process_command is called with, which is not blank
InitCommand ==
    /\ Unused
    /\ input \in {[fn |-> "process", key_mapper |-> c,
                   language_transformer |-> [language |-> l, region |-> r],
                   timestamp_emulator |-> z,
                   command_preprocessor |->
                       [key_mapper |-> c,
                        language_transformer |-> [language |-> l, region |-> r],
                        timestamp_emulator |-> z],
                   text |-> t, rule |-> x] :
                     c \in {"US", "DE"}, l \in {"en", "de", "fa"},
                     r \in {"en", "fa"}, z \in {0 - 5, 0, 3},
                     t \in Texts(MaxCommandPieces), x \in Rules("fa")}
    /\ input.rule \in Rules(input.language_transformer.region)
    /\ ~TrimIsEmpty(input.text)

ProcessCall ==
    /\ output = NoOutput
    /\ output' = Process(input.command_preprocessor, input.text, input.rule)
    /\ UNCHANGED <<adapterVars, callVars, ghostVars, driverVars, now, added,
                   input, frac, last_request>>

NextCommand == ProcessCall

SpecCommand == InitCommand /\ [][NextCommand]_vars

(***************************************************************************)
(* SpecManager: PluginManager::new for a requested plugin type, then the   *)
(* methods of the adapter it holds, called one after the other in any order*)
(***************************************************************************)
SelectPluginNoFallback(plugin_type, config) ==
    CASE plugin_type = "Null" -> NullName
      [] plugin_type = "CobaltStrike" -> CobaltName
      [] plugin_type = "Sliver" -> SliverName
      [] plugin_type = "Mythic" -> MythicName
      [] plugin_type = "Custom" ->
            IF config = "none" THEN NullName ELSE CobaltName

\* PluginManager::new, its choice of adapter.  config is what the Custom
\* type finds: no configuration, one without a path, a path
\* load_custom_plugin fails on, or a library it loads.
SelectPlugin(plugin_type, config) ==
    CASE plugin_type = "Null" -> NullName
      [] plugin_type = "CobaltStrike" -> CobaltName
      [] plugin_type = "Sliver" -> SliverName
      [] plugin_type = "Mythic" -> MythicName
      [] plugin_type = "Custom" ->
            IF config \in {"none", "no_path", "unloadable"} THEN NullName
            ELSE "custom_plugin"

\* the requests explored: every built-in type, and the Custom type with
\* each configuration that yields no library
InitManager ==
    /\ input \in {[fn |-> "manager", plugin_type |-> t, config |-> c] :
                     t \in {"Null", "CobaltStrike", "Sliver", "Mythic", "Custom"},
                     c \in {"none", "no_path", "unloadable", "parameters"}}
    /\ input.plugin_type = "Custom" <=> input.config # "parameters"
    /\ NewAdapter
    /\ plugin = SelectPlugin(input.plugin_type, input.config)
    /\ ncalls = 0
    /\ sent_all = <<>>
    /\ NoSession

\* PluginManager::new returns Ok(manager) once initialize has returned,
\* whatever its result
ManagerReturn ==
    /\ output = NoOutput
    /\ ncalls = 1
    /\ ~busy
    /\ output' = [kind |-> "manager", result |-> "ok", plugin |-> plugin]
    /\ UNCHANGED <<adapterVars, callVars, ghostVars, driverVars, now, added,
                   input, frac, last_request>>

NextManager ==
    \/ output = NoOutput /\ ncalls = 0 /\ CallInitialize
    \/ output = NoOutput /\ StepInitialize
    \/ ManagerReturn
    \/ output # NoOutput /\ CallSend
    \/ output # NoOutput /\ StepSend
    \/ output # NoOutput /\ CallReceive
    \/ output # NoOutput /\ CallCleanup
    \/ output # NoOutput /\ Tick

SpecManager == InitManager /\ [][NextManager]_vars

(***************************************************************************)
(* SpecNull: the Null adapter, as an object whose methods are called in    *)
(* any order (pc = "none") and as the adapter of a session                 *)
(***************************************************************************)
InitNull ==
    /\ InitAdapter \/ Init
    /\ plugin = NullName

NextNull ==
    \/ pc = "none" /\ CallInitialize
    \/ pc = "none" /\ CallSend
    \/ pc = "none" /\ CallReceive
    \/ pc = "none" /\ CallCleanup
    \/ pc # "none" /\ Next

SpecNull == InitNull /\ [][NextNull]_vars

(***************************************************************************)
(* SpecMetadata: the methods of one adapter object, send_with_metadata     *)
(* among them, called one after the other in any order                     *)
(***************************************************************************)
SendWithMetadataSendsBoth(d, metadata) ==
    Send([d EXCEPT !.len = @ + Cardinality(DOMAIN metadata.language_dict)])

\* C2Adapter::send_with_metadata, the default method, which no adapter
\* overrides
SendWithMetadata(d, metadata) == Send(d)

\* the metadata of two sessions
MetadataSamples ==
    {TransformationMetadataNew("US", [language |-> "en", region |-> "en"], 0),
     TransformationMetadataNew("DE", [language |-> "de", region |-> "fa"], 3)}

\* a call of send_with_metadata; input keeps its arguments
CallSendWithMetadata ==
    /\ ~busy
    /\ \E len \in PayloadSizes, metadata \in MetadataSamples :
          LET d == [id |-> ncalls + 1, len |-> len]
          IN  /\ SendWithMetadata(d, metadata)
              /\ sent_all' = Append(sent_all, d)
              /\ input' = [fn |-> "send_with_metadata", data |-> d,
                           metadata |-> metadata]
    /\ ncalls' = ncalls + 1
    /\ UNCHANGED <<plugin, cfg_keys, driverVars, now, added, output, frac,
                   last_request>>

NextMetadata ==
    \/ ncalls < MaxMetadataCalls /\ CallInitialize
    \/ StepInitialize
    \/ ncalls < MaxMetadataCalls /\ CallSendWithMetadata
    \/ StepSend
    \/ ncalls < MaxMetadataCalls /\ CallReceive
    \/ ncalls < MaxMetadataCalls /\ CallCleanup

SpecMetadata == InitAdapter /\ [][NextMetadata]_vars

(***************************************************************************)
(* TimestampEmulator (obfuscation.rs) and SpecMode: Mode::new building the *)
(* emulator and the validator of a session, then one get_timestamp         *)
(***************************************************************************)
DigitChars == <<"0", "1", "2", "3", "4", "5", "6", "7", "8", "9">>

\* str::parse::<i32>: an optional sign, then one digit or more
RECURSIVE DigitsValue(_)
DigitsValue(t) ==
    IF t = <<>> THEN 0
    ELSE DigitsValue(SubSeq(t, 1, Len(t) - 1)) * 10
            + (CHOOSE k \in 0..9 : DigitChars[k + 1] = t[Len(t)])

ParseI32(t) ==
    LET signed == t # <<>> /\ t[1] \in {"+", "-"}
        digits == IF signed THEN Tail(t) ELSE t
    IN  IF /\ digits # <<>>
           /\ \A i \in DOMAIN digits : \E k \in 1..10 : DigitChars[k] = digits[i]
        THEN [ok |-> TRUE,
              value |-> IF signed /\ t[1] = "-" THEN 0 - DigitsValue(digits)
                        ELSE DigitsValue(digits)]
        ELSE [ok |-> FALSE]

\* parse().unwrap_or(0)
ParseOrZero(t) == IF ParseI32(t).ok THEN ParseI32(t).value ELSE 0

\* format!("{}", n) for an i32
SignedDecimal(n) == IF n < 0 THEN <<"-">> \o Decimal(0 - n) ELSE Decimal(n)

\* the label of an offset without a name: "UTC", the sign, the offset
UtcLabel(offset) ==
    <<"U", "T", "C">> \o (IF offset >= 0 THEN <<"+">> ELSE <<>>) \o SignedDecimal(offset)

\* TimestampEmulator::random, its draw given
TimestampEmulatorRandom(offset) ==
    [timezone_offset |-> offset, timezone_name |-> UtcLabel(offset)]

\* TimestampEmulator::for_timezone
ForTimezone(timezone) ==
    LET offset == ParseOrZero(timezone)
    IN  [timezone_offset |-> offset,
         timezone_name |->
            CASE offset = 1 -> <<"C", "E", "T">>
              [] offset = 2 -> <<"E", "E", "T">>
              [] offset = 3 -> <<"M", "S", "K">>
              [] offset = 5 -> <<"P", "K", "T">>
              [] offset = 8 -> <<"C", "S", "T">>
              [] offset = 9 -> <<"J", "S", "T">>
              [] offset = 0 - 5 -> <<"E", "S", "T">>
              [] offset = 0 - 6 -> <<"C", "S", "T">>
              [] offset = 0 - 7 -> <<"M", "S", "T">>
              [] offset = 0 - 8 -> <<"P", "S", "T">>
              [] OTHER -> UtcLabel(offset)]

GetTimestampNoWrap(emulator, utc) ==
    LET pad(n) == IF n >= 0 /\ n < 10 THEN <<"0">> \o Decimal(n)
                  ELSE SignedDecimal(n)
    IN  pad(utc.hour + emulator.timezone_offset) \o <<":">> \o pad(utc.minute)
            \o <<" ">> \o emulator.timezone_name

\* TimestampEmulator::get_timestamp; utc is Utc::now().  Adding the hours
\* moves the date as well, so the hour is taken modulo 24.
GetTimestamp(emulator, utc) ==
    LET pad(n) == IF n >= 0 /\ n < 10 THEN <<"0">> \o Decimal(n)
                  ELSE SignedDecimal(n)
    IN  pad((utc.hour + emulator.timezone_offset) % 24) \o <<":">>
            \o pad(utc.minute) \o <<" ">> \o emulator.timezone_name

\* Persona::by_country_code, as the validator Mode::new builds from it
PersonaValidator(country) ==
    CASE country = "RU" -> RussianValidator
      [] country = "IR" -> IranianValidator
      [] country = "CN" -> ChineseValidator
      [] country = "KP" -> NorthKoreanValidator
      [] country = "US" -> WesternValidator
      [] OTHER -> NoValidator

\* Mode::new, the emulator and the validator it builds; drawn is the offset
\* TimestampEmulator::random draws
ModeNew(mode_type, attr_config, drawn) ==
    IF mode_type = "Random"
    THEN [timestamp_emulator |-> TimestampEmulatorRandom(drawn),
          opsec_validator |-> NoValidator]
    ELSE [timestamp_emulator |-> ForTimezone(attr_config.timezone),
          opsec_validator |->
              IF PersonaValidator(attr_config.country).some
              THEN PersonaValidator(attr_config.country)
              ELSE BasicValidator(ParseOrZero(attr_config.timezone),
                                  attr_config.country, attr_config.language)]

\* the timezone texts of a configuration: every offset of -12..12 with its
\* sign, the offsets from 0 without one, and two texts that are no number
InitMode ==
    /\ Unused
    /\ \E h \in 0..23, mi \in {0, 5, 59} :
          \/ \E d \in (0 - 12)..12 :
                input = [fn |-> "mode", mode_type |-> "Random",
                         attr_config |-> [country |-> "DE", language |-> "en",
                                          timezone |-> <<>>],
                         drawn |-> d, utc |-> [hour |-> h, minute |-> mi]]
          \/ \E c \in {"RU", "KP", "DE"},
                z \in {SubSeq(UtcLabel(n), 4, Len(UtcLabel(n))) : n \in (0 - 12)..12}
                        \cup {Decimal(n) : n \in 0..12}
                        \cup {<<"a", "b", "c">>, <<>>} :
                input = [fn |-> "mode", mode_type |-> "Attribute",
                         attr_config |-> [country |-> c, language |-> "en",
                                          timezone |-> z],
                         drawn |-> 0, utc |-> [hour |-> h, minute |-> mi]]

ModeNewCall ==
    /\ output = NoOutput
    /\ output' = [kind |-> "mode", timestamp |-> <<>>,
                  mode |-> ModeNew(input.mode_type, input.attr_config,
                                   input.drawn)]
    /\ UNCHANGED <<adapterVars, callVars, ghostVars, driverVars, now, added,
                   input, frac, last_request>>

GetTimestampCall ==
    /\ output # NoOutput
    /\ output.kind = "mode"
    /\ output' = [output EXCEPT
                     !.kind = "timestamp",
                     !.timestamp = GetTimestamp(output.mode.timestamp_emulator,
                                                input.utc)]
    /\ UNCHANGED <<adapterVars, callVars, ghostVars, driverVars, now, added,
                   input, frac, last_request>>

NextMode == ModeNewCall \/ GetTimestampCall

SpecMode == InitMode /\ [][NextMode]_vars

(***************************************************************************)
(* SpecKeys: one session with the Null adapter, which takes no part in the *)
(* key handling; the text each pass of the loop hands to display is kept   *)
(***************************************************************************)
InitKeys ==
    /\ Init
    /\ plugin = NullName

\* one pass of the loop body, with display(&input_text, ..) recorded
DisplayKey(key, display_ok) ==
    /\ HandleKey(key, display_ok)
    /\ output' = [kind |-> "display", input_text |-> KeyToString(key)]
    /\ UNCHANGED <<input, frac, last_request>>

\* the clock is read by the Mythic adapter alone and stands still here
NextKeys ==
    \/ Interrupt
    \/ \E answer \in {"y", "n"} : HandlerExit(answer)
    \/ LoopCheck
    \/ \E key \in Keys, display_ok \in BOOLEAN : DisplayKey(key, display_ok)
    \/ ReadKeyError
    \/ \E outcome \in ReceiveOutcomes(plugin), text \in ReceivedTexts,
          rule \in Rules(input.language_transformer.region),
          display_ok \in BOOLEAN :
          Poll(outcome, text, rule, display_ok)
    \/ \E display_ok \in BOOLEAN : AfterLoop(display_ok)

SpecKeys == InitKeys /\ [][NextKeys]_vars

(***************************************************************************)
(* Claims about the session, checked under Spec                            *)
(***************************************************************************)
C1_Step == (emitted' # emitted) <=> (entered' # entered)

\* C1: a command is emitted for processing exactly in the steps that read
\* Enter on a buffer that is not blank.
C1_EmitOnEnter == [][C1_Step]_vars

\* C8: when the driver is about to read a key, every command entered so far
\* has been handed to the adapter, in a send that has returned.
C8_SendBeforeNextKey ==
    (pc = "read_key" /\ plugin # NullName) => (Len(sent_all) = entered /\ ~busy)

\* C9: a session that has ended has called the adapter's cleanup.
C9_CleanupBeforeEnd == SessionEnded => cleanup_invoked

\* C10: when the driver is about to read a key, every command entered so far
\* that the validator answered with Warning is in the history and, with an
\* adapter other than the Null one, has been passed to the adapter.
C10_WarningStillSent ==
    pc = "read_key" =>
        /\ Len(history) >= warned
        /\ plugin # NullName => Len(sent_all) >= warned

(***************************************************************************)
(* Claims about the history, checked under SpecHistory                     *)
(***************************************************************************)
Min(a, b) == IF a < b THEN a ELSE b

\* C7: the history never holds more than 100 commands, and it holds the most
\* recently added ones in the order they were added.
C7_HistoryMostRecent ==
    /\ Len(history) <= HISTORY_MAX_ENTRIES
    /\ LET n == Min(added, HISTORY_MAX_ENTRIES)
       IN  history = [i \in 1..n |-> added - n + i]

C7_Witness ==
    /\ added > HISTORY_MAX_ENTRIES
    /\ Len(history) = HISTORY_MAX_ENTRIES
    /\ history[1] = added - HISTORY_MAX_ENTRIES + 1

(***************************************************************************)
(* Claims about the adapters, checked under SpecAdapter                    *)
(***************************************************************************)

C2_Step ==
    plugin \in HttpPlugins =>
        /\ retry_count' < MAX_RETRY_ATTEMPTS
        /\ (last_incr' >= MAX_RETRY_ATTEMPTS
               => (~connected' /\ retry_count' = 0))
        /\ (call' \in {"send", "receive"} /\ connected /\ ~connected'
               => last_incr' = MAX_RETRY_ATTEMPTS)

\* C2: in the HTTP adapters (CobaltStrike, Mythic) the consecutive-error
\* counter never rests at 3: the step that raises it to 3 clears connected
\* and resets the counter to 0, and a step of send or receive clears
\* connected only when it has raised the counter to 3.
C2_DisconnectAtThree == [][C2_Step]_vars

C2_Witness ==
    /\ plugin \in HttpPlugins
    /\ call = "send"
    /\ last_incr = MAX_RETRY_ATTEMPTS
    /\ ~connected
    /\ retry_count = 0

C3_Step ==
    plugin # NullName =>
        /\ (~connected /\ ncalls' = ncalls + 1 /\ call' \in {"send", "receive"}
               => /\ ~busy'
                  /\ events' = <<>>
                  /\ buffer' = buffer
                  /\ ~connected'
                  /\ result' = (IF call' = "send" THEN "ok" ELSE "empty"))
        /\ (~connected /\ connected' => call' = "initialize")

\* C3: a send or receive called on a disconnected HTTP/WebSocket adapter
\* returns at once (send: success, receive: empty), issues no request and
\* leaves the buffer and the flag as they are; only a step of initialize
\* sets connected.
C3_StickyDisconnect == [][C3_Step]_vars

C3_Witness ==
    /\ plugin \in HttpPlugins
    /\ ~connected
    /\ call = "send"
    /\ ~busy
    /\ events = <<>>
    /\ result = "ok"
    /\ buffer # <<>>
    /\ Len(sent_all) > Len(delivered)

\* C4: one call of send or initialize makes at most 3 attempts, none after a
\* successful one, with exactly one backoff sleep between two consecutive
\* attempts and none after the last.
C4_BoundedAttempts ==
    (plugin # NullName /\ call \in {"send", "initialize"}) =>
        /\ Cardinality({i \in DOMAIN events : events[i] # "sleep"})
              <= MAX_RETRY_ATTEMPTS
        /\ \A i \in DOMAIN events : (events[i] = "sleep") <=> (i % 2 = 0)
        /\ \A i \in DOMAIN events : events[i] = "ok" => i = Len(events)
        /\ (~busy /\ events # <<>>) => events[Len(events)] # "sleep"
        /\ (busy /\ events # <<>>) => events[Len(events)] = "sleep"

C4_Witness ==
    /\ plugin \in HttpPlugins
    /\ call = "send"
    /\ ~busy
    /\ events = <<"transport_error", "sleep", "api_error", "sleep", "ok">>

\* C5: the buffer of CobaltStrike, Sliver and Mythic never holds more than
\* MAX_BUFFER_SIZE (1 MiB) bytes, whatever the sizes of the payloads sent.
C5_BufferCapped ==
    plugin \in {CobaltName, SliverName, MythicName} =>
        BufLen(buffer) <= MAX_BUFFER_SIZE

C5_Witness ==
    /\ BufLen(buffer) = MAX_BUFFER_SIZE
    /\ buffer[1].lo > 1
    /\ call_data.len > MAX_BUFFER_SIZE

\* the concatenation of payloads, as runs
RECURSIVE Concat(_)
Concat(ps) == IF ps = <<>> THEN <<>> ELSE Bytes(Head(ps)) \o Concat(Tail(ps))

\* the last n bytes of b (all of b when it is shorter), taken from the back
RECURSIVE SuffixRuns(_, _)
SuffixRuns(b, n) ==
    IF n = 0 \/ b = <<>> THEN <<>>
    ELSE LET last == b[Len(b)]
         IN  IF SegLen(last) >= n
             THEN <<[last EXCEPT !.lo = last.hi - n + 1]>>
             ELSE SuffixRuns(SubSeq(b, 1, Len(b) - 1), n - SegLen(last))
                     \o <<last>>

\* C6 as stated: between calls, the buffer is the last (at most 1 MiB) bytes
\* of the concatenation of every payload passed to send since the last
\* cleanup.
C6_EverySendAppends ==
    (plugin # NullName /\ ~busy) =>
        buffer = SuffixRuns(Concat(sent_all), MAX_BUFFER_SIZE)

\* C6 amended: the buffer is the last (at most 1 MiB) bytes of the
\* concatenation of the payloads whose transmission succeeded since the last
\* cleanup; a skipped or failed send leaves it as it is.
C6_SuccessfulSendsAppend ==
    plugin # NullName =>
        buffer = SuffixRuns(Concat(delivered), MAX_BUFFER_SIZE)

C6_Witness ==
    /\ ~busy
    /\ Len(sent_all) > Len(delivered)
    /\ Len(buffer) >= 2
    /\ buffer[1].lo > 1

(***************************************************************************)
(* Claims about the validator, checked under SpecValidate                  *)
(***************************************************************************)
OutsideHours(v, w) ==
    LET hour == (w.hour + v.timezone_offset) % 24
    IN  hour < v.working_hours[1] \/ hour > v.working_hours[2]

LexicalMatch(v, original) ==
    LET cmd == ToLowercase(original)
    IN  \/ v.language_code = "ru" /\ ContainsStr(cmd, <<"c", "o", "l", "o", "r">>)
        \/ v.language_code = "de" /\ ContainsStr(cmd, <<"\\">>)
        \/ /\ v.language_code \in {"fa", "ar"}
           /\ \/ ContainsStr(cmd, <<"L", "R", "M">>)
              \/ ContainsStr(cmd, <<"L", "E", "F", "T", "-", "T", "O", "-", "R",
                                    "I", "G", "H", "T">>)
        \/ /\ v.language_code = "zh"
           /\ (ContainsStr(cmd, <<"U+306E">>) \/ ContainsStr(cmd, <<"U+306F">>))

DirectoryMatch(v, original) ==
    LET cmd == ToLowercase(original)
    IN  /\ v.country_code # "US"
        /\ \/ ContainsStr(cmd, <<"/", "u", "s", "e", "r", "s", "/">>)
           \/ ContainsStr(cmd, <<"/", "d", "e", "s", "k", "t", "o", "p", "/">>)
           \/ ContainsStr(cmd, <<"/", "d", "o", "c", "u", "m", "e", "n", "t", "s", "/">>)

\* the reason of the first check that matches, in the order hours, weekend,
\* holiday, lexical, directory; "none" when no check matches
FirstMatch(v, original, w) ==
    IF OutsideHours(v, w) THEN "hours"
    ELSE IF w.weekday \in v.weekend_days THEN "weekend"
    ELSE IF <<w.month, w.day>> \in v.holidays THEN "holiday"
    ELSE IF LexicalMatch(v, original)
    THEN CASE v.language_code = "ru" -> "spelling"
           [] v.language_code = "de" -> "separator"
           [] v.language_code \in {"fa", "ar"} -> "ltr"
           [] v.language_code = "zh" -> "japanese"
    ELSE IF DirectoryMatch(v, original) THEN "directory"
    ELSE "none"

\* C11: validate answers with the first check that matches, in the order
\* working hours, weekend, holiday, lexical check, directory name; it answers
\* Valid exactly when none matches, and never Violation.
C11_FirstMatchWins ==
    output # NoOutput =>
        LET first == FirstMatch(input.validator, input.command, input.wall)
        IN  /\ output.kind # "Violation"
            /\ output.kind = "Valid" <=> first = "none"
            /\ output.kind = "Warning" => output.why = first

C11_Witness ==
    /\ input.fn = "validate"
    /\ output.kind = "Warning"
    /\ output.why = "directory"
    /\ input.validator.language_code = "ru"

(***************************************************************************)
(* Claims about polling, checked under SpecPoll                            *)
(***************************************************************************)
C12_Step ==
    (last_request' # last_request /\ last_request # NoRequest) =>
        last_request' - last_request >= TASK_CHECK_INTERVAL * TicksPerSecond

\* C12: two requests issued by the Mythic adapter's receive are at least 3
\* seconds apart.
C12_OnePollPerWindow == [][C12_Step]_vars

(***************************************************************************)
(* Claims about LanguageTransformer::transform, checked under              *)
(* SpecTransform                                                           *)
(***************************************************************************)
\* the tokens of the text transform was called with, and of its translation
InputTokens == SplitWhitespace(input.text)
TranslationTokens == SplitWhitespace(Translate(input.language, input.text))

\* a word of the input has a translation of more than one word
MultiWordEntry ==
    \E i \in DOMAIN InputTokens :
        /\ InputTokens[i] \in DOMAIN Dictionary(input.language)
        /\ Len(SplitWhitespace(Dictionary(input.language)[InputTokens[i]])) > 1

C14_ProtectedSpansKept ==
    output # NoOutput /\ output.kind = "text" =>
        \A span \in IdentifyProtectedContexts(
                        JoinedText(input.language, input.text)) :
            ContainsStr(output.text, span)

\* C17: for a right-to-left language the text transform returns begins with
\* U+200F U+202B and ends with U+202C
C17_RtlWrapped ==
    output # NoOutput /\ output.kind = "text" /\ IsRtl(input.language) =>
        /\ StartsWith(output.text, <<"U+200F", "U+202B">>)
        /\ output.text[Len(output.text)] = "U+202C"

(***************************************************************************)
(* Claims about CommandPreprocessor::process, checked under SpecCommand    *)
(***************************************************************************)
\* the inverse of a key mapping applied to a character
InverseKey(key_mapping, c) ==
    IF \E k \in DOMAIN key_mapping : key_mapping[k] = c
    THEN CHOOSE k \in DOMAIN key_mapping : key_mapping[k] = c
    ELSE c

\* the inverse of a dictionary applied to a token
InverseWord(language_dict, w) ==
    IF \E k \in DOMAIN language_dict : language_dict[k] = w
    THEN CHOOSE k \in DOMAIN language_dict : language_dict[k] = w
    ELSE w

\* the inverse of the metadata's key mapping on each character of the
\* transformed text, then the inverse of its dictionary on each token
Restored ==
    LET unmapped == [i \in DOMAIN output.transformed |->
                        InverseKey(output.metadata.key_mapping,
                                   output.transformed[i])]
        tokens == SplitWhitespace(unmapped)
    IN  Join([i \in DOMAIN tokens |->
                 InverseWord(output.metadata.language_dict, tokens[i])], <<" ">>)

\* C15: with no attribution fingerprint, undoing the key mapping and then the
\* dictionary of a command's metadata on its transformed text gives its
\* original text
C15_RoundTrip ==
    output # NoOutput /\ output.kind = "command"
        /\ input.language_transformer.region = "en" =>
            Restored = output.original

\* C18: a command's metadata carries the offset of the timestamp emulator
\* and the dictionary of the language transformer
C18_MetadataMatchesComponents ==
    output # NoOutput /\ output.kind = "command" =>
        /\ output.metadata.timezone_offset = input.timestamp_emulator
        /\ output.metadata.language_dict
               = Dictionary(input.language_transformer.language)

C18_Witness ==
    /\ output # NoOutput
    /\ output.kind = "command"
    /\ input.language_transformer.language = "de"
    /\ input.timestamp_emulator = 3
    /\ output.metadata.timezone_offset = 3
    /\ output.metadata.language_dict[<<"y", "e", "s">>] = <<"j", "a">>

(***************************************************************************)
(* Further claims about the session, checked under Spec                    *)
(***************************************************************************)
\* C13: the check for data never ends the loop on an adapter failure or in
\* fingerprint injection: it does not panic, and unless data was received
\* and shown it returns to the head of the loop
C13_Step ==
    pc = "receive" /\ pc' # "receive" =>
        /\ pc' # "panic"
        /\ result' # "data" => pc' = "loop"

C13_ReceiveNeverEndsLoop == [][C13_Step]_vars

(***************************************************************************)
(* Claims about PluginManager::new, checked under SpecManager              *)
(***************************************************************************)
\* C19: a Mythic adapter without api_key or callback_uuid answers receive
\* with empty and send with success and issues no request; a Custom adapter
\* with no configuration, no path or a library that does not load is
\* replaced by the Null adapter, and PluginManager::new returns Ok
C19_MissingConfigDegrades ==
    /\ plugin = MythicName /\ ~api_configured /\ call \in {"send", "receive"} =>
          /\ events = <<>>
          /\ ~busy
          /\ result = (IF call = "send" THEN "ok" ELSE "empty")
    /\ input.plugin_type = "Custom" => plugin = NullName
    /\ output # NoOutput =>
          /\ output.result = "ok"
          /\ input.plugin_type = "Custom" => output.plugin = NullName

C19_Witness ==
    /\ output # NoOutput
    /\ \/ /\ plugin = MythicName
          /\ ~cfg_keys
          /\ call = "receive"
          /\ sent_all # <<>>
       \/ /\ input.plugin_type = "Custom"
          /\ input.config = "unloadable"
          /\ call = "send"

C21_Step ==
    input' # input =>
        /\ input'.fn = "send_with_metadata"
        /\ Send(input'.data)
        /\ UNCHANGED <<plugin, cfg_keys>>

ReceiveFailures ==
    {"status_error", "body_error", "timeout", "transport_error", "api_error"}
ReceiveSuccesses == {"data", "empty", "task", "no_task"}

\* C22: in an HTTP adapter every failed exchange of send or receive adds one
\* to the consecutive-error counter and every successful exchange resets it
\* to 0
C22_Step ==
    plugin \in HttpPlugins =>
        /\ call' = "receive" /\ ncalls' = ncalls + 1 /\ events' # <<>> =>
              /\ events'[1] \in ReceiveFailures => last_incr' = retry_count + 1
              /\ events'[1] \in ReceiveSuccesses => retry_count' = 0
        /\ busy /\ call = "send" /\ attempt' = attempt + 1 =>
              IF success' THEN retry_count' = 0
              ELSE last_incr' = retry_count + 1

C22_EveryFailureCounts == [][C22_Step]_vars

\* the requests of the call so far, its backoff sleeps left out
Attempts(evs) == SelectSeq(evs, LAMBDA e : e # "sleep")

\* C23: a CobaltStrike send that began connected with the counter at 0, has
\* had two POSTs fail in transport (the counter is at 2) and now has one
\* succeed, ends at its third attempt with connected true, the counter at 0
\* and the payload appended once
C23_Step ==
    /\ plugin = CobaltName
    /\ busy
    /\ call = "send"
    /\ Attempts(events) = <<"transport_error", "transport_error">>
    /\ retry_count = 2
    /\ success'
    => /\ attempt' = 3
       /\ ~busy'
       /\ result' = "ok"
       /\ connected'
       /\ retry_count' = 0
       /\ delivered' = Append(delivered, call_data)
       /\ buffer' = AddToBuffer(buffer, call_data)

C23_ThirdAttemptSucceeds == [][C23_Step]_vars

C23_Witness ==
    /\ plugin = CobaltName
    /\ call = "send"
    /\ ~busy
    /\ success
    /\ attempt = 3
    /\ Attempts(events) = <<"transport_error", "transport_error", "ok">>
    /\ connected
    /\ retry_count = 0
    /\ delivered = <<call_data>>

\* C24: an HTTP adapter issues a POST of send only while connected, and a
\* send that ends with a successful POST leaves connected true
C24_Step ==
    plugin \in HttpPlugins /\ busy /\ call = "send" /\ attempt' = attempt + 1 =>
        /\ connected
        /\ success' => connected'

C24_NoPostWhileDisconnected == [][C24_Step]_vars

(***************************************************************************)
(* Further claims about the validator, checked under SpecValidate          *)
(***************************************************************************)
\* the days of a month of a common year
DaysIn(month) ==
    IF month = 2 THEN 28 ELSE IF month \in {4, 6, 9, 11} THEN 30 ELSE 31

\* a wall clock shifted by a whole number of hours, the weekday and the date
\* moving to the adjacent day when the shift crosses midnight
ShiftedClock(w, offset) ==
    LET total == w.hour + offset
        previous_month == IF w.month = 1 THEN 12 ELSE w.month - 1
        next_month == IF w.month = 12 THEN 1 ELSE w.month + 1
    IN  IF total >= 24
        THEN [hour |-> total - 24,
              weekday |-> (w.weekday + 1) % 7,
              month |-> IF w.day = DaysIn(w.month) THEN next_month ELSE w.month,
              day |-> IF w.day = DaysIn(w.month) THEN 1 ELSE w.day + 1]
        ELSE IF total < 0
        THEN [hour |-> total + 24,
              weekday |-> (w.weekday + 6) % 7,
              month |-> IF w.day = 1 THEN previous_month ELSE w.month,
              day |-> IF w.day = 1 THEN DaysIn(previous_month) ELSE w.day - 1]
        ELSE [w EXCEPT !.hour = total]

\* C25: on a machine whose local time is UTC, validate answers as its checks
\* do on the hour, the weekday and the date of the clock shifted by the
\* persona's offset
C25_ShiftedDayCompared ==
    output # NoOutput =>
        LET s == ShiftedClock(input.wall, input.validator.timezone_offset)
        IN  output = (IF OutsideHours(input.validator, input.wall)
                      THEN Warning("hours")
                      ELSE IF s.weekday \in input.validator.weekend_days
                      THEN Warning("weekend")
                      ELSE IF <<s.month, s.day>> \in input.validator.holidays
                      THEN Warning("holiday")
                      ELSE LanguageSpecificChecks(input.validator, input.command))

\* C26: with a persona of language fa or ar and the hours, weekend and
\* holiday checks passing, validate answers Warning for a command whose
\* original text contains LRM or LEFT-TO-RIGHT
C26_LtrMarkerWarned ==
    /\ output # NoOutput
    /\ input.validator.language_code \in {"fa", "ar"}
    /\ ~OutsideHours(input.validator, input.wall)
    /\ input.wall.weekday \notin input.validator.weekend_days
    /\ <<input.wall.month, input.wall.day>> \notin input.validator.holidays
    /\ \/ ContainsStr(input.command, <<"L", "R", "M">>)
       \/ ContainsStr(input.command, <<"L", "E", "F", "T", "-", "T", "O", "-",
                                       "R", "I", "G", "H", "T">>)
    => output.kind = "Warning"

(***************************************************************************)
(* Claims about Mode::new and the timestamp emulator, checked under        *)
(* SpecMode                                                                *)
(***************************************************************************)

\* C27: in Attribute mode the validator's timezone offset is the offset of
\* the TimestampEmulator, whatever the attribute configuration
C27_ValidatorOffsetIsEmulatorOffset ==
    (output # NoOutput /\ input.mode_type = "Attribute") =>
        output.mode.opsec_validator.timezone_offset
            = output.mode.timestamp_emulator.timezone_offset

\* the number two characters spell when both are decimal digits, else -1
TwoDigitValue(a, b) ==
    IF \E j, k \in 0..9 : DigitChars[j + 1] = a /\ DigitChars[k + 1] = b
    THEN LET j == CHOOSE j \in 0..9 : DigitChars[j + 1] = a
             k == CHOOSE k \in 0..9 : DigitChars[k + 1] = b
         IN  10 * j + k
    ELSE 0 - 1

\* C30: for every offset in -12..12 and every UTC time, get_timestamp
\* returns HH:MM LABEL: HH is (UTC hour + offset) mod 24 in two digits, MM
\* the UTC minute in two digits, LABEL the stored label
C30_TimestampFormat ==
    (output # NoOutput /\ output.kind = "timestamp") =>
        LET t == output.timestamp
            e == output.mode.timestamp_emulator
        IN  e.timezone_offset \in (0 - 12)..12 =>
                /\ Len(t) = 6 + Len(e.timezone_name)
                /\ TwoDigitValue(t[1], t[2])
                        = (input.utc.hour + e.timezone_offset) % 24
                /\ t[3] = ":"
                /\ TwoDigitValue(t[4], t[5]) = input.utc.minute
                /\ t[6] = " "
                /\ SubSeq(t, 7, Len(t)) = e.timezone_name

\* offset +12 at 13:00 UTC gives 01:00 UTC+12
C30_Witness ==
    /\ output # NoOutput
    /\ output.kind = "timestamp"
    /\ output.mode.timestamp_emulator.timezone_offset = 12
    /\ input.utc = [hour |-> 13, minute |-> 0]
    /\ output.timestamp = <<"0", "1", ":", "0", "0", " ", "U", "T", "C", "+", "1", "2">>

(***************************************************************************)
(* Claims about the handling of one key, checked under SpecKeys            *)
(***************************************************************************)
\* the step is a pass of the loop that read the key
KeyRead(key) ==
    /\ pc = "read_key"
    /\ pc' \in {"receive", "done", "process_command"}
    /\ output'.kind = "display"
    /\ output'.input_text = KeyToString(key)

C28_Step ==
    \A key \in Keys :
        (key.kind \notin {"Char", "Enter", "Backspace"} /\ KeyRead(key)) =>
            /\ current_command' = current_command
            /\ emitted' = emitted
            /\ pc' # "process_command"

\* C28: a named key other than Enter and Backspace (Tab, Escape, the arrows,
\* Home, End, PageUp, PageDown, Delete, a function key, Other) leaves the
\* buffer of the command as it was and emits no command
C28_NamedKeysLeaveBuffer == [][C28_Step]_vars

C29_Step ==
    KeyRead([kind |-> "Backspace"]) =>
        /\ current_command = <<>> => current_command' = <<>>
        /\ current_command # <<>> =>
              /\ Len(current_command') = Len(current_command) - 1
              /\ \A i \in 1..Len(current_command') :
                    current_command'[i] = current_command[i]
        /\ emitted' = emitted
        /\ pc' # "process_command"

\* C29: Backspace removes exactly the last character of a buffer that is
\* not empty, leaves an empty buffer as it was, and emits no command
C29_BackspaceRemovesLast == [][C29_Step]_vars

\* Backspace has just been handled and left one character of two
C29_Witness ==
    /\ pc = "receive"
    /\ output.kind = "display"
    /\ output.input_text = BackspaceText
    /\ Len(current_command) = MaxLen - 1

====
